---------------------------- MODULE Spec2Model ----------------------------
(***************************************************************************)
(* A model of src/codes/models/epi.py: the policy timing generator, the    *)
(* stochastic parameter sampler, the SIR/SEIR simulators, the to-daily     *)
(* time-scale conversion and the regression loop of simulate_and_regress.  *)
(*                                                                         *)
(* Each component is a sequential procedure; it is modelled as a small     *)
(* state machine whose program counter walks through the blocks of the     *)
(* function, and each component has a specification of its own (the other  *)
(* components' variables stay idle).                                       *)
(***************************************************************************)
EXTENDS Integers, Sequences, FiniteSets, TLC

VARIABLES
    \* adjust_timescales_to_daily
    d_pc, d_n, d_spd, d_out_t, d_groups,
    \* run_SIR / run_SEIR: the rate arrays of ds and the state arrays
    s_pc, s_kind, s_nsteps, s_ic, s_beta, s_gamma, s_sigma, s_S, s_E, s_I, s_R,
    \* init_policy_dummies: arguments, locals (dates, valid, random_end_arr,
    \* out) and the way the call ended
    p_pc, p_cfg, p_dates, p_valid, p_random_end, p_out, p_result,
    \* simulate_and_regress up to the simulation, around
    \* get_stochastic_discrete_params: arguments, the local sigma_noise_on,
    \* whether sim_engine is bound, the sampled arrays, the warning, the end
    g_pc, g_cfg, g_sigma_noise_on, g_sim_engine, g_policy_drawn, g_drawn,
    g_beta, g_gamma, g_sigma, g_warned, g_total_neg, g_sim_ran, g_result,
    \* the process-wide numpy generator, the invocation of
    \* simulate_and_regress in progress and the invocations completed
    rng, r_pc, r_cfg, r_start, r_seeded, r_draws, r_runs,
    \* the regression part of simulate_and_regress: the daily data of every
    \* sample, no_pol_on_regday0, last_reg_day, the loop index and the
    \* coefficient tensor
    x_pc, x_cfg, x_onset, x_random_end, x_valid_reg, x_regday0,
    x_last_reg_day, x_samp, x_estimates,
    \* get_true_pol_effects up to the baseline entry of lambdas and weights:
    \* the dataset's grid and interval start, the rounding of the time label
    \* at the interval start, the two selections, the averaged steps and
    \* their count
    e_pc, e_cfg, e_round, e_sel, e_no_pol, e_lambda_steps, e_weight

dailyVars == <<d_pc, d_n, d_spd, d_out_t, d_groups>>

simVars == <<s_pc, s_kind, s_nsteps, s_ic, s_beta, s_gamma, s_sigma,
             s_S, s_E, s_I, s_R>>

polVars == <<p_pc, p_cfg, p_dates, p_valid, p_random_end, p_out, p_result>>

parVars == <<g_pc, g_cfg, g_sigma_noise_on, g_sim_engine, g_policy_drawn,
             g_drawn, g_beta, g_gamma, g_sigma, g_warned, g_total_neg,
             g_sim_ran, g_result>>

rngVars == <<rng, r_pc, r_cfg, r_start, r_seeded, r_draws, r_runs>>

regVars == <<x_pc, x_cfg, x_onset, x_random_end, x_valid_reg, x_regday0,
             x_last_reg_day, x_samp, x_estimates>>

effVars == <<e_pc, e_cfg, e_round, e_sel, e_no_pol, e_lambda_steps, e_weight>>

vars == <<dailyVars, simVars, polVars, parVars, rngVars, regVars, effVars>>

\* what each component leaves alone: the other components' variables
dailyFrame == <<simVars, polVars, parVars, rngVars, regVars, effVars>>

simFrame == <<dailyVars, polVars, parVars, rngVars, regVars, effVars>>

polFrame == <<dailyVars, simVars, parVars, rngVars, regVars, effVars>>

parFrame == <<dailyVars, simVars, polVars, rngVars, regVars, effVars>>

rngFrame == <<dailyVars, simVars, polVars, parVars, regVars, effVars>>

regFrame == <<dailyVars, simVars, polVars, parVars, rngVars, effVars>>

effFrame == <<dailyVars, simVars, polVars, parVars, rngVars, regVars>>

(***************************************************************************)
(* Generic helpers                                                         *)
(***************************************************************************)
Min(S) == CHOOSE x \in S : \A y \in S : x <= y

Max(S) == CHOOSE x \in S : \A y \in S : x >= y

RECURSIVE SortedSeq(_)
\* the elements of a finite set of integers, ascending
SortedSeq(S) == IF S = {} THEN <<>> ELSE <<Min(S)>> \o SortedSeq(S \ {Min(S)})

CeilDiv(a, b) == (a + b - 1) \div b

(***************************************************************************)
(* adjust_timescales_to_daily (epi.py 53-85)                               *)
(*                                                                         *)
(* The fine grid has d_n points t_i = i / d_spd, i = 0..d_n-1 (fine index  *)
(* i is modelled, the time is i / d_spd, so int(t_i) = i \div d_spd).      *)
(***************************************************************************)
\* bounds of the grids explored
MaxFineSteps == 13

MaxStepsPerDay == 4

\* ds.isel(t=slice(0, -1, tsteps_per_day)): fine indices 0, spd, 2 spd, ...
\* strictly below the last index n-1
SliceKeepAllIdx(n, spd) == SortedSeq({i \in 0..(n - 1) : i % spd = 0})

SliceIdx(n, spd) == SortedSeq({i \in 0..(n - 2) : i % spd = 0})

\* ds[c].isel(t=slice(None, -1)).groupby(ds.t.astype(int)[:-1]): the final
\* fine step is dropped, the others are grouped by the integer part of
\* their time, groups in ascending key order, members in grid order
GroupBy(n, spd) ==
    LET kept == 0..(n - 2)
        keys == SortedSeq({i \div spd : i \in kept})
    IN  [k \in 1..Len(keys) |->
            SortedSeq({i \in kept : i \div spd = keys[k]})]

DailyInit ==
    /\ d_pc = "start"
    /\ d_n \in 2..MaxFineSteps
    /\ d_spd \in 1..MaxStepsPerDay
    /\ d_out_t = <<>>
    /\ d_groups = <<>>

DailyIdle ==
    /\ d_pc = "idle"
    /\ d_n = 0
    /\ d_spd = 0
    /\ d_out_t = <<>>
    /\ d_groups = <<>>

\* line 67
DailySlice ==
    /\ d_pc = "start"
    /\ d_out_t' = SliceIdx(d_n, d_spd)
    /\ d_pc' = "sliced"
    /\ UNCHANGED <<d_n, d_spd, d_groups>>
    /\ UNCHANGED dailyFrame

\* lines 72-80: the grouped reduction is assigned to out[c].values, which
\* needs as many groups as there are coarse steps in out
DailyGroup ==
    /\ d_pc = "sliced"
    /\ d_groups' = GroupBy(d_n, d_spd)
    /\ d_pc' = IF Len(GroupBy(d_n, d_spd)) = Len(d_out_t)
               THEN "done" ELSE "shape_error"
    /\ UNCHANGED <<d_n, d_spd, d_out_t>>
    /\ UNCHANGED dailyFrame

DailyNext == DailySlice \/ DailyGroup

\* the grid built by simulate_and_regress (lines 458-460): n_days * spd + 1
IsPipelineGrid == d_n >= d_spd + 1 /\ (d_n - 1) % d_spd = 0

IsConsecutive(b) == \A j \in 1..(Len(b) - 1) : b[j + 1] = b[j] + 1

Abs(x) == IF x < 0 THEN -x ELSE x

RECURSIVE GCD(_, _)
GCD(a, b) == IF b = 0 THEN a ELSE GCD(b, a % b)

RNorm(n, d) ==
    LET g == GCD(Abs(n), Abs(d))
        sgn == IF d < 0 THEN -1 ELSE 1
    IN  <<sgn * (n \div g), sgn * (d \div g)>>

RAdd(a, b) ==
    LET l == (a[2] \div GCD(a[2], b[2])) * b[2]
    IN  RNorm(a[1] * (l \div a[2]) + b[1] * (l \div b[2]), l)

RNeg(a) == <<-a[1], a[2]>>

RSub(a, b) == RAdd(a, RNeg(b))

RMul(a, b) ==
    LET g1 == GCD(Abs(a[1]), b[2])
        g2 == GCD(Abs(b[1]), a[2])
    IN  RNorm((a[1] \div g1) * (b[1] \div g2), (a[2] \div g2) * (b[2] \div g1))

ROne == <<1, 1>>

RZero == <<0, 1>>

RSign(a) == IF a[1] < 0 THEN -1 ELSE IF a[1] = 0 THEN 0 ELSE 1

\* np.exp is not rational-valued.  The model keeps what the update relies
\* on: exp(x) is positive, below 1 for x < 0, 1 at 0, above 1 for x > 0.
ExpModel(x) ==
    IF RSign(x) < 0 THEN <<1, 2>> ELSE IF RSign(x) = 0 THEN ROne ELSE <<2, 1>>

(***************************************************************************)
(* run_SIR (epi.py 286-317) and run_SEIR (epi.py 320-357), for one cell of *)
(* the non-time axes: every cell runs the same update on its own rates.    *)
(***************************************************************************)
\* bound on len(ds.t)
MaxSimSteps == 3

\* rates of any sign, initial fractions
BetaSet == {<<-1, 2>>, <<1, 2>>, <<1, 1>>}

GammaSet == {<<-1, 2>>, <<0, 1>>, <<1, 2>>}

SigmaSet == {<<-1, 2>>, <<1, 2>>}

E0Set == {<<0, 1>>, <<1, 4>>}

I0Set == {<<1, 4>>, <<1, 2>>}

R0Set == {<<0, 1>>, <<1, 4>>}

Last(q) == q[Len(q)]

\* line 310, with the plain flow update a forward-Euler R would use
NextR_SIR_Flow(Snew, Inew, Rold, Iold, gamma) == RAdd(Rold, RMul(gamma, Iold))

NextR_SIR(Snew, Inew, Rold, Iold, gamma) == RSub(RSub(ROne, Snew), Inew)

\* line 350
NextR_SEIR(Snew, Enew, Inew) == RSub(RSub(RSub(ROne, Snew), Enew), Inew)

SimInit ==
    /\ s_pc = "start"
    /\ s_kind \in {"SIR", "SEIR"}
    /\ s_nsteps \in 1..MaxSimSteps
    /\ s_ic \in [E0 : E0Set, I0 : I0Set, R0 : R0Set]
    /\ s_beta = <<>> /\ s_gamma = <<>> /\ s_sigma = <<>>
    /\ s_S = <<>> /\ s_E = <<>> /\ s_I = <<>> /\ s_R = <<>>

SimIdle ==
    /\ s_pc = "idle"
    /\ s_kind = "none"
    /\ s_nsteps = 0
    /\ s_ic = [E0 |-> RZero, I0 |-> RZero, R0 |-> RZero]
    /\ s_beta = <<>> /\ s_gamma = <<>> /\ s_sigma = <<>>
    /\ s_S = <<>> /\ s_E = <<>> /\ s_I = <<>> /\ s_R = <<>>

\* run_SIR lines 297-302
SIRInitial ==
    /\ s_pc = "start" /\ s_kind = "SIR"
    /\ s_R' = <<s_ic.R0>>
    /\ s_I' = <<s_ic.I0>>
    /\ s_S' = <<RSub(RSub(ROne, s_ic.I0), s_ic.R0)>>
    /\ s_pc' = "loop"
    /\ UNCHANGED <<s_kind, s_nsteps, s_ic, s_beta, s_gamma, s_sigma, s_E>>
    /\ UNCHANGED simFrame

\* run_SIR lines 304-310, one pass of the loop; beta[i-1], gamma[i-1] are
\* the rates ds holds for the step
SIRStep ==
    /\ s_pc = "loop" /\ s_kind = "SIR"
    /\ Len(s_S) < s_nsteps
    /\ \E beta \in BetaSet, gamma \in GammaSet :
        LET new_infected_rate == RMul(beta, Last(s_S))
            new_removed_rate == gamma
            Snew == RSub(Last(s_S), RMul(new_infected_rate, Last(s_I)))
            Inew == RMul(Last(s_I),
                         ExpModel(RSub(new_infected_rate, new_removed_rate)))
        IN  /\ s_beta' = Append(s_beta, beta)
            /\ s_gamma' = Append(s_gamma, gamma)
            /\ s_S' = Append(s_S, Snew)
            /\ s_I' = Append(s_I, Inew)
            /\ s_R' = Append(s_R,
                             NextR_SIR(Snew, Inew, Last(s_R), Last(s_I), gamma))
    /\ UNCHANGED <<s_pc, s_kind, s_nsteps, s_ic, s_sigma, s_E>>
    /\ UNCHANGED simFrame

\* run_SEIR lines 334-340
SEIRInitial ==
    /\ s_pc = "start" /\ s_kind = "SEIR"
    /\ s_R' = <<s_ic.R0>>
    /\ s_I' = <<s_ic.I0>>
    /\ s_E' = <<s_ic.E0>>
    /\ s_S' = <<RSub(RSub(RSub(ROne, s_ic.I0), s_ic.R0), s_ic.E0)>>
    /\ s_pc' = "loop"
    /\ UNCHANGED <<s_kind, s_nsteps, s_ic, s_beta, s_gamma, s_sigma>>
    /\ UNCHANGED simFrame

\* run_SEIR lines 342-350, one pass of the loop
SEIRStep ==
    /\ s_pc = "loop" /\ s_kind = "SEIR"
    /\ Len(s_S) < s_nsteps
    /\ \E beta \in BetaSet, gamma \in GammaSet, sigma \in SigmaSet :
        LET new_exposed == RMul(RMul(beta, Last(s_S)), Last(s_I))
            new_infected == RMul(sigma, Last(s_E))
            new_removed == RMul(gamma, Last(s_I))
            Snew == RSub(Last(s_S), new_exposed)
            Enew == RSub(RAdd(Last(s_E), new_exposed), new_infected)
            Inew == RSub(RAdd(Last(s_I), new_infected), new_removed)
        IN  /\ s_beta' = Append(s_beta, beta)
            /\ s_gamma' = Append(s_gamma, gamma)
            /\ s_sigma' = Append(s_sigma, sigma)
            /\ s_S' = Append(s_S, Snew)
            /\ s_E' = Append(s_E, Enew)
            /\ s_I' = Append(s_I, Inew)
            /\ s_R' = Append(s_R, NextR_SEIR(Snew, Enew, Inew))
    /\ UNCHANGED <<s_pc, s_kind, s_nsteps, s_ic>>
    /\ UNCHANGED simFrame

\* lines 312-317 / 352-357: the loop is over, the arrays are returned
SimReturn ==
    /\ s_pc = "loop"
    /\ Len(s_S) = s_nsteps
    /\ s_pc' = "done"
    /\ UNCHANGED <<s_kind, s_nsteps, s_ic, s_beta, s_gamma, s_sigma,
                   s_S, s_E, s_I, s_R>>
    /\ UNCHANGED simFrame

SimNext == SIRInitial \/ SIRStep \/ SEIRInitial \/ SEIRStep \/ SimReturn

\* C2: for run_SIR and run_SEIR, whatever the initial condition and the
\* rates (of any sign), the compartments sum to exactly 1 at every timestep
\* written so far, and a finished run has written all n_steps timesteps.
C2_SumToOne ==
    /\ \A t \in 1..Len(s_S) :
          IF s_kind = "SIR"
          THEN RAdd(RAdd(s_S[t], s_I[t]), s_R[t]) = ROne
          ELSE RAdd(RAdd(RAdd(s_S[t], s_E[t]), s_I[t]), s_R[t]) = ROne
    /\ s_pc = "done" =>
          /\ Len(s_S) = s_nsteps /\ Len(s_I) = s_nsteps /\ Len(s_R) = s_nsteps
          /\ s_kind = "SEIR" => Len(s_E) = s_nsteps

C2_Witness ==
    /\ s_pc = "done"
    /\ s_kind = "SIR"
    /\ s_nsteps = 3
    /\ \E t \in 1..Len(s_gamma) : RSign(s_gamma[t]) < 0
    /\ \E t \in 1..Len(s_beta) : RSign(s_beta[t]) < 0
    /\ s_S[3] # s_S[1]

(***************************************************************************)
(* init_policy_dummies (epi.py 88-153)                                     *)
(*                                                                         *)
(* Indicator and ramp values lie in [0,1]; they are modelled in units of   *)
(* 1/RampScale.  Steps and days are 0-based as in the code; TLA+ sequences *)
(* are 1-based, so step i is element i + 1.                                *)
(***************************************************************************)
\* bound on n_samples in the configurations that exercise the sampling
MaxSamples == 2

RampScale == 2

RampValues == 0..RampScale

\* draws of np.random.uniform, in quarters
UniformDraws == {0, 2}

\* lag ramps (one value per day) of one length for every policy, as the
\* (policy, lag_num) matrix of policy_ds.lag requires
LagMatrices(k) ==
    UNION {[1..k -> [1..len -> RampValues]] : len \in 0..2}

\* configurations that exercise the oversampling and the rejection of
\* collinear draws: narrow onset intervals, one or two policies
SamplingConfigs ==
    [n_samples : 1..MaxSamples, n_effects : {2}, start : {0, 1},
     width : {1, 2}, n_days : {3}, spd : {1},
     lag : {<<<<>>, <<>>>>, <<<<1>>, <<2>>>>}, random_end : BOOLEAN]
    \cup
    [n_samples : 1..MaxSamples, n_effects : {1}, start : {0, 1},
     width : {1, 2}, n_days : {3}, spd : {1},
     lag : {<<<<>>>>, <<<<1>>>>}, random_end : BOOLEAN]

\* configurations that exercise the timing tensor: onset days inside and
\* beyond the grid of n_days * spd + 1 fine steps, ramps of 0 to 2 days
TimingConfigs ==
    UNION {[n_samples : {1}, n_effects : {k}, start : {0, 2, 3},
            width : {1, 2}, n_days : {2}, spd : {1, 2},
            lag : LagMatrices(k), random_end : {FALSE}] : k \in {1, 2}}

IntervalEnd(cfg) == cfg.start + cfg.width

\* len(t) for the grid of simulate_and_regress (lines 459-460)
NSteps(cfg) == cfg.n_days * cfg.spd + 1

\* dates.sort(axis=1), one row
SortRow(row) ==
    LET k == Len(row)
        Rank(i) == Cardinality({j \in 1..k : row[j] < row[i]
                                             \/ (row[j] = row[i] /\ j < i)}) + 1
    IN  [r \in 1..k |-> row[CHOOSE i \in 1..k : Rank(i) = r]]

\* line 107: len(np.unique(x)) == dates.shape[1]
RowValid(row) == Cardinality({row[i] : i \in 1..Len(row)}) = Len(row)

CountTrue(mask) == Cardinality({i \in 1..Len(mask) : mask[i]})

\* line 110, and the same check with >= in place of >
EnoughValidLoose(nvalid, n_samples) == nvalid >= n_samples

EnoughValid(nvalid, n_samples) == nvalid > n_samples

\* dates[valid]
RECURSIVE Compress(_, _)
Compress(rows, mask) ==
    IF rows = <<>> THEN <<>>
    ELSE (IF Head(mask) THEN <<Head(rows)>> ELSE <<>>)
         \o Compress(Tail(rows), Tail(mask))

\* dates[:n]
Truncate(rows, n) == [i \in 1..(IF Len(rows) < n THEN Len(rows) ELSE n) |-> rows[i]]

\* lines 121-124: 1.0 from the onset fine step on, 0.0 before
StepFunction(cfg, dates) ==
    [s \in 1..Len(dates) |->
        [pl \in 1..cfg.n_effects |->
            [i \in 1..NSteps(cfg) |->
                IF i - 1 >= dates[s][pl] * cfg.spd THEN RampScale ELSE 0]]]

\* lines 127-133: every ramp value repeated steps_per_day times
FineLag(l, spd) == [j \in 1..(Len(l) * spd) |-> l[((j - 1) \div spd) + 1]]

\* out.argmax(axis=-1): the 0-based index of the first maximum, which is 0
\* for a row that is 0 everywhere
ArgMax(row) ==
    LET m == Max({row[i] : i \in 1..Len(row)})
    IN  Min({i \in 1..Len(row) : row[i] = m}) - 1

\* line 140, out[sx, lx, a : a + len(l)] = l; numpy refuses the assignment
\* when the slice, cut at the end of the array, is shorter than l
SliceFits(row, a, l) == a + Len(l) <= Len(row)

SliceAssign(row, a, l) ==
    [i \in 1..Len(row) |->
        IF i - 1 >= a /\ i - 1 < a + Len(l) THEN l[i - a] ELSE row[i]]

PolInit ==
    /\ p_pc = "start"
    /\ p_cfg \in SamplingConfigs \cup TimingConfigs
    /\ p_dates = <<>>
    /\ p_valid = <<>>
    /\ p_random_end = <<>>
    /\ p_out = <<>>
    /\ p_result = "none"

PolIdle ==
    /\ p_pc = "idle"
    /\ p_cfg = [n_samples |-> 0]
    /\ p_dates = <<>>
    /\ p_valid = <<>>
    /\ p_random_end = <<>>
    /\ p_out = <<>>
    /\ p_result = "none"

\* lines 93-103: 2 * n_samples rows of n_effects integers in [start, end)
PolDraw ==
    /\ p_pc = "start"
    /\ p_dates' \in [1..(2 * p_cfg.n_samples) ->
                        [1..p_cfg.n_effects ->
                            p_cfg.start..(IntervalEnd(p_cfg) - 1)]]
    /\ p_pc' = "drawn"
    /\ UNCHANGED <<p_cfg, p_valid, p_random_end, p_out, p_result>>
    /\ UNCHANGED polFrame

\* line 104
PolSort ==
    /\ p_pc = "drawn"
    /\ p_dates' = [r \in 1..Len(p_dates) |-> SortRow(p_dates[r])]
    /\ p_pc' = "sorted"
    /\ UNCHANGED <<p_cfg, p_valid, p_random_end, p_out, p_result>>
    /\ UNCHANGED polFrame

\* lines 107-112: the assertion passes and the valid rows are kept, cut to
\* n_samples
PolKeepValid ==
    /\ p_pc = "sorted"
    /\ LET valid == [r \in 1..Len(p_dates) |-> RowValid(p_dates[r])]
       IN  /\ EnoughValid(CountTrue(valid), p_cfg.n_samples)
           /\ p_valid' = valid
           /\ p_dates' = Truncate(Compress(p_dates, valid), p_cfg.n_samples)
    /\ p_pc' = "kept"
    /\ UNCHANGED <<p_cfg, p_random_end, p_out, p_result>>
    /\ UNCHANGED polFrame

\* lines 107-110: the assertion fails
PolAssertFails ==
    /\ p_pc = "sorted"
    /\ LET valid == [r \in 1..Len(p_dates) |-> RowValid(p_dates[r])]
       IN  /\ ~EnoughValid(CountTrue(valid), p_cfg.n_samples)
           /\ p_valid' = valid
    /\ p_pc' = "raised"
    /\ p_result' = "AssertionError"
    /\ UNCHANGED <<p_cfg, p_dates, p_random_end, p_out>>
    /\ UNCHANGED polFrame

\* lines 115-118
PolRandomEnd ==
    /\ p_pc = "kept"
    /\ IF p_cfg.random_end
       THEN p_random_end' \in [1..p_cfg.n_samples -> UniformDraws]
       ELSE p_random_end' = [s \in 1..p_cfg.n_samples |-> 4]
    /\ p_pc' = "ends"
    /\ UNCHANGED <<p_cfg, p_dates, p_valid, p_out, p_result>>
    /\ UNCHANGED polFrame

\* lines 121-124
PolStepFunction ==
    /\ p_pc = "ends"
    /\ p_out' = StepFunction(p_cfg, p_dates)
    /\ p_pc' = "stepped"
    /\ UNCHANGED <<p_cfg, p_dates, p_valid, p_random_end, p_result>>
    /\ UNCHANGED polFrame

\* lines 127-140: every ramp fits into its slice and is written
PolLags ==
    /\ p_pc = "stepped"
    /\ \A s \in 1..Len(p_out), pl \in 1..p_cfg.n_effects :
          SliceFits(p_out[s][pl], ArgMax(p_out[s][pl]),
                    FineLag(p_cfg.lag[pl], p_cfg.spd))
    /\ p_out' = [s \in 1..Len(p_out) |->
                    [pl \in 1..p_cfg.n_effects |->
                        SliceAssign(p_out[s][pl], ArgMax(p_out[s][pl]),
                                    FineLag(p_cfg.lag[pl], p_cfg.spd))]]
    /\ p_pc' = "lagged"
    /\ UNCHANGED <<p_cfg, p_dates, p_valid, p_random_end, p_result>>
    /\ UNCHANGED polFrame

\* lines 137-140: some ramp runs past the end of the grid and the slice
\* assignment raises
PolLagsRaise ==
    /\ p_pc = "stepped"
    /\ \E s \in 1..Len(p_out), pl \in 1..p_cfg.n_effects :
          ~SliceFits(p_out[s][pl], ArgMax(p_out[s][pl]),
                     FineLag(p_cfg.lag[pl], p_cfg.spd))
    /\ p_pc' = "raised"
    /\ p_result' = "ValueError"
    /\ UNCHANGED <<p_cfg, p_dates, p_valid, p_random_end, p_out>>
    /\ UNCHANGED polFrame

\* lines 142-153
PolReturn ==
    /\ p_pc = "lagged"
    /\ p_pc' = "done"
    /\ p_result' = "ok"
    /\ UNCHANGED <<p_cfg, p_dates, p_valid, p_random_end, p_out>>
    /\ UNCHANGED polFrame

PolNext ==
    \/ PolDraw \/ PolSort \/ PolKeepValid \/ PolAssertFails \/ PolRandomEnd
    \/ PolStepFunction \/ PolLags \/ PolLagsRaise \/ PolReturn

PolValidated == p_pc \in {"kept", "ends", "stepped", "lagged", "done"}

PairwiseDistinct(row) ==
    \A a, b \in 1..Len(row) : a # b => row[a] # row[b]

TimingAsClaimed(s, pl, i) ==
    LET onset == p_dates[s][pl] * p_cfg.spd
        ramp == FineLag(p_cfg.lag[pl], p_cfg.spd)
    IN  IF i < onset THEN 0
        ELSE IF i < onset + Len(ramp) THEN ramp[i - onset + 1]
        ELSE RampScale

\* C10: in the tensor init_policy_dummies returns, every policy of every
\* sample is 0 before its onset fine step (onset day * steps_per_day),
\* follows the lag ramp (each value repeated steps_per_day times) from the
\* onset step, and is 1 after the ramp; all values lie in [0,1]; this for
\* every onset day that can be drawn from the configured interval.
C10_TimingIndicator ==
    p_result = "ok" =>
        \A s \in 1..Len(p_out), pl \in 1..p_cfg.n_effects :
            \A i \in 0..(NSteps(p_cfg) - 1) :
                /\ p_out[s][pl][i + 1] = TimingAsClaimed(s, pl, i)
                /\ p_out[s][pl][i + 1] \in 0..RampScale

\* a returned tensor with an onset inside the grid and a ramp that fits
C10_Witness ==
    /\ p_result = "ok"
    /\ \E s \in 1..Len(p_out), pl \in 1..p_cfg.n_effects :
          /\ p_dates[s][pl] * p_cfg.spd > 0
          /\ p_dates[s][pl] * p_cfg.spd + Len(p_cfg.lag[pl]) * p_cfg.spd
                < NSteps(p_cfg)
          /\ Len(p_cfg.lag[pl]) = 1
          /\ p_cfg.lag[pl][1] = 1

(***************************************************************************)
(* get_stochastic_discrete_params (epi.py 179-283) as simulate_and_regress *)
(* reaches it (epi.py 443-456, 485-517).                                   *)
(*                                                                         *)
(* A noise argument is "none" (False, None: anything falsy), "normal",     *)
(* "exponential", or "bogus" (any other string).  Rates are integers in    *)
(* some small unit; the arrays over (sample, t) have NumCells entries.     *)
(***************************************************************************)
\* bound on the entries of each sampled array
NumCells == 2

KnownNoise == {"none", "normal", "exponential"}

NoiseArgs == KnownNoise \cup {"bogus"}

KindArgs == {"SIR", "SEIR", "bogus"}

\* the discretised growth eigenvalue, gamma and sigma (lines 205-217)
LambdaDisc == {-1, 0}

GammaDisc == {0, 1}

SigmaDisc == {1}

\* np.random.normal(0, sd, ...), and np.random.exponential(scale) for a
\* positive scale
NormalDraws == {-1, 0, 1}

ExponentialDraws == {1, 2}

\* lines 162, 166
get_beta_SEIR(lambdas, gammas, sigmas) ==
    ((lambdas + gammas) * (lambdas + sigmas)) \div sigmas

get_beta_SIR(lambdas, gammas) == lambdas + gammas

\* lines 226-240 (and 242-256, 258-272): the arrays a noise model can
\* yield around the deterministic value det
NoisyArrays(noise, det) ==
    CASE noise = "normal" ->
            {[c \in 1..NumCells |-> det + d[c]] :
                d \in [1..NumCells -> NormalDraws]}
      [] noise = "exponential" ->
            IF det > 0 THEN [1..NumCells -> ExponentialDraws]
            ELSE {[c \in 1..NumCells |-> 0]}
      [] OTHER -> {[c \in 1..NumCells |-> det]}

\* the draws that are <= 0, 0 included
CountNonPositive(arr) == Cardinality({c \in 1..Len(arr) : arr[c] <= 0})

\* line 277
CountNegative(arr) == Cardinality({c \in 1..Len(arr) : arr[c] < 0})

ParInit ==
    /\ g_pc = "setup"
    /\ g_cfg \in [kind : KindArgs, beta_noise_on : NoiseArgs,
                  gamma_noise_on : NoiseArgs, sigma_noise_on : NoiseArgs,
                  lambda : LambdaDisc, gamma : GammaDisc, sigma : SigmaDisc]
    /\ g_sigma_noise_on = g_cfg.sigma_noise_on
    /\ g_sim_engine = "unbound"
    /\ g_policy_drawn = FALSE
    /\ g_drawn = {}
    /\ g_beta = <<>> /\ g_gamma = <<>> /\ g_sigma = <<>>
    /\ g_warned = FALSE
    /\ g_total_neg = 0
    /\ g_sim_ran = FALSE
    /\ g_result = "none"

ParIdle ==
    /\ g_pc = "idle"
    /\ g_cfg = [kind |-> "none"]
    /\ g_sigma_noise_on = "none"
    /\ g_sim_engine = "unbound"
    /\ g_policy_drawn = FALSE
    /\ g_drawn = {}
    /\ g_beta = <<>> /\ g_gamma = <<>> /\ g_sigma = <<>>
    /\ g_warned = FALSE
    /\ g_total_neg = 0
    /\ g_sim_ran = FALSE
    /\ g_result = "none"

\* simulate_and_regress lines 443-456: no else branch
ParSetup ==
    /\ g_pc = "setup"
    /\ g_sim_engine' = CASE g_cfg.kind = "SEIR" -> "run_SEIR"
                         [] g_cfg.kind = "SIR" -> "run_SIR"
                         [] OTHER -> "unbound"
    /\ g_sigma_noise_on' = IF g_cfg.kind = "SIR" THEN "none"
                           ELSE g_sigma_noise_on
    /\ g_pc' = "policies"
    /\ UNCHANGED <<g_cfg, g_policy_drawn, g_drawn, g_beta, g_gamma, g_sigma,
                   g_warned, g_total_neg, g_sim_ran, g_result>>
    /\ UNCHANGED parFrame

\* simulate_and_regress lines 485-499: the policy timing is drawn
ParPolicyTiming ==
    /\ g_pc = "policies"
    /\ g_policy_drawn' = TRUE
    /\ g_pc' = "kind"
    /\ UNCHANGED <<g_cfg, g_sigma_noise_on, g_sim_engine, g_drawn, g_beta,
                   g_gamma, g_sigma, g_warned, g_total_neg, g_sim_ran,
                   g_result>>
    /\ UNCHANGED parFrame

\* get_stochastic_discrete_params lines 193-224
ParKind ==
    /\ g_pc = "kind"
    /\ IF g_cfg.kind \in {"SIR", "SEIR"}
       THEN g_pc' = "beta" /\ g_result' = g_result
       ELSE g_pc' = "raised" /\ g_result' = "ValueError"
    /\ UNCHANGED <<g_cfg, g_sigma_noise_on, g_sim_engine, g_policy_drawn,
                   g_drawn, g_beta, g_gamma, g_sigma, g_warned, g_total_neg,
                   g_sim_ran>>
    /\ UNCHANGED parFrame

BetaDeterministic ==
    IF g_cfg.kind = "SIR"
    THEN get_beta_SIR(g_cfg.lambda, g_cfg.gamma)
    ELSE get_beta_SEIR(g_cfg.lambda, g_cfg.gamma, g_cfg.sigma)

\* np.random.exponential refuses a negative scale
ScaleRefused(noise, det) == noise = "exponential" /\ det < 0

\* lines 226-240
ParBeta ==
    /\ g_pc = "beta"
    /\ IF g_cfg.beta_noise_on \notin KnownNoise
          \/ ScaleRefused(g_cfg.beta_noise_on, BetaDeterministic)
       THEN /\ g_pc' = "raised" /\ g_result' = "ValueError"
            /\ UNCHANGED <<g_beta, g_drawn>>
       ELSE /\ g_pc' = "gamma" /\ g_result' = g_result
            /\ g_beta' \in NoisyArrays(g_cfg.beta_noise_on, BetaDeterministic)
            /\ g_drawn' = IF g_cfg.beta_noise_on = "none" THEN g_drawn
                          ELSE g_drawn \cup {"beta"}
    /\ UNCHANGED <<g_cfg, g_sigma_noise_on, g_sim_engine, g_policy_drawn,
                   g_gamma, g_sigma, g_warned, g_total_neg, g_sim_ran>>
    /\ UNCHANGED parFrame

\* lines 242-256
ParGamma ==
    /\ g_pc = "gamma"
    /\ IF g_cfg.gamma_noise_on \notin KnownNoise
       THEN /\ g_pc' = "raised" /\ g_result' = "ValueError"
            /\ UNCHANGED <<g_gamma, g_drawn>>
       ELSE /\ g_pc' = "sigma" /\ g_result' = g_result
            /\ g_gamma' \in NoisyArrays(g_cfg.gamma_noise_on, g_cfg.gamma)
            /\ g_drawn' = IF g_cfg.gamma_noise_on = "none" THEN g_drawn
                          ELSE g_drawn \cup {"gamma"}
    /\ UNCHANGED <<g_cfg, g_sigma_noise_on, g_sim_engine, g_policy_drawn,
                   g_beta, g_sigma, g_warned, g_total_neg, g_sim_ran>>
    /\ UNCHANGED parFrame

\* lines 258-272: "sigma" is always a dimension of the dataset built by
\* init_reg_ds; the if/elif chain has no else, so any other string leaves
\* sigma_stoch unset
ParSigma ==
    /\ g_pc = "sigma"
    /\ IF g_sigma_noise_on \in KnownNoise
       THEN /\ g_sigma' \in NoisyArrays(g_sigma_noise_on, g_cfg.sigma)
            /\ g_drawn' = IF g_sigma_noise_on = "none" THEN g_drawn
                          ELSE g_drawn \cup {"sigma"}
       ELSE UNCHANGED <<g_sigma, g_drawn>>
    /\ g_pc' = "lambda"
    /\ UNCHANGED <<g_cfg, g_sigma_noise_on, g_sim_engine, g_policy_drawn,
                   g_beta, g_gamma, g_warned, g_total_neg, g_sim_ran,
                   g_result>>
    /\ UNCHANGED parFrame

\* with sigma_to_test = [nan] (SIR, line 451) sigma_stoch is NaN, and
\* NaN < 0 is False
SigmaCounted == IF g_cfg.kind = "SIR" THEN <<>> ELSE g_sigma

\* lines 274-283: out.sigma_stoch is read; the negative draws are counted
\* and the warning is emitted; the dataset is returned as it is
ParLambdaAndWarn ==
    /\ g_pc = "lambda"
    /\ IF g_sigma = <<>>
       THEN /\ g_pc' = "raised" /\ g_result' = "AttributeError"
            /\ UNCHANGED <<g_total_neg, g_warned>>
       ELSE /\ g_pc' = "simulate" /\ g_result' = g_result
            /\ g_total_neg' = CountNegative(g_beta \o g_gamma \o SigmaCounted)
            /\ g_warned' = (CountNegative(g_beta \o g_gamma \o SigmaCounted) > 0)
    /\ UNCHANGED <<g_cfg, g_sigma_noise_on, g_sim_engine, g_policy_drawn,
                   g_drawn, g_beta, g_gamma, g_sigma, g_sim_ran>>
    /\ UNCHANGED parFrame

\* simulate_and_regress line 517 and what follows
ParSimulate ==
    /\ g_pc = "simulate"
    /\ g_sim_engine # "unbound"
    /\ g_sim_ran' = TRUE
    /\ g_pc' = "done"
    /\ g_result' = "ok"
    /\ UNCHANGED <<g_cfg, g_sigma_noise_on, g_sim_engine, g_policy_drawn,
                   g_drawn, g_beta, g_gamma, g_sigma, g_warned, g_total_neg>>
    /\ UNCHANGED parFrame

ParNext ==
    \/ ParSetup \/ ParPolicyTiming \/ ParKind \/ ParBeta \/ ParGamma
    \/ ParSigma \/ ParLambdaAndWarn \/ ParSimulate

UnknownConfig ==
    \/ g_cfg.kind \notin {"SIR", "SEIR"}
    \/ g_cfg.beta_noise_on \notin KnownNoise
    \/ g_cfg.gamma_noise_on \notin KnownNoise
    \/ g_cfg.sigma_noise_on \notin KnownNoise

\* C4: an unknown noise-model string for beta, gamma or sigma, or an unknown
\* kind, ends the call with a ValueError before any stochastic parameter is
\* drawn and before the simulation runs; the call never completes.
C4_UnknownConfigRejected ==
    UnknownConfig =>
        /\ g_drawn = {}
        /\ ~g_sim_ran
        /\ g_result \in {"none", "ValueError"}
        /\ g_pc \notin {"simulate", "done"}

\* an unknown kind does end with a ValueError before any parameter is drawn
C4_Witness ==
    /\ g_cfg.kind = "bogus"
    /\ g_result = "ValueError"
    /\ g_drawn = {}

\* C5: the warning is emitted exactly when at least one sampled beta, gamma
\* or sigma draw is <= 0 (0 included) and reports the number of such draws;
\* the values are returned as sampled and the run continues.
C5_WarnOnNonPositive ==
    g_pc \in {"simulate", "done"} =>
        /\ g_warned <=> CountNonPositive(g_beta \o g_gamma \o SigmaCounted) > 0
        /\ g_total_neg = CountNonPositive(g_beta \o g_gamma \o SigmaCounted)

\* a run that warned about two negative draws and went on to the end
C5_Witness ==
    /\ g_result = "ok"
    /\ g_warned
    /\ g_total_neg = 2

(***************************************************************************)
(* The random generator across invocations of simulate_and_regress         *)
(* (np.random.seed at line 93, the draws at lines 99, 116, 229-269).       *)
(*                                                                         *)
(* numpy's global generator is modelled as a full-period linear            *)
(* congruential generator on 0..7; a draw advances it and yields the new   *)
(* state.  Between invocations the rest of the process may draw from it or *)
(* reseed it.                                                              *)
(***************************************************************************)
\* bound on the invocations recorded in one behaviour
MaxRuns == 2

RngStates == 0..7

Advance(state) == (5 * state + 3) % 8

\* np.random.seed(seed) at line 93, and a generator left as it was
SeedSkipped(state, seed) == state

SeedState(state, seed) == seed % 8

RECURSIVE DrawMany(_, _)
\* k successive draws from state: <<the values drawn, the state left>>
DrawMany(state, k) ==
    IF k = 0 THEN <<<<>>, state>>
    ELSE LET rest == DrawMany(Advance(state), k - 1)
         IN  <<<<Advance(state)>> \o rest[1], rest[2]>>

\* the configurations invoked: n_samples = 1, one policy, normal noise on
\* beta over NumCells entries, with and without a randomized end
RunConfigs == [n_samples : {1}, n_effects : {1}, random_end : BOOLEAN]

RngInit ==
    /\ rng \in RngStates
    /\ r_pc = "idle"
    /\ r_cfg = [n_samples |-> 0]
    /\ r_start = 0
    /\ r_seeded = 0
    /\ r_draws = <<>>
    /\ r_runs = <<>>

RngIdle ==
    /\ rng = 0
    /\ r_pc = "off"
    /\ r_cfg = [n_samples |-> 0]
    /\ r_start = 0
    /\ r_seeded = 0
    /\ r_draws = <<>>
    /\ r_runs = <<>>

\* some other code of the process draws from the global generator
ExternalDraw ==
    /\ r_pc = "idle"
    /\ rng' = Advance(rng)
    /\ UNCHANGED <<r_pc, r_cfg, r_start, r_seeded, r_draws, r_runs>>
    /\ UNCHANGED rngFrame

\* some other code of the process reseeds the global generator
ExternalSeed ==
    /\ r_pc = "idle"
    /\ \E seed \in RngStates : rng' = seed /\ rng' # rng
    /\ UNCHANGED <<r_pc, r_cfg, r_start, r_seeded, r_draws, r_runs>>
    /\ UNCHANGED rngFrame

\* simulate_and_regress is called (lines 396-483: no draw, no seed)
RunCall ==
    /\ r_pc = "idle"
    /\ Len(r_runs) < MaxRuns
    /\ r_cfg' \in RunConfigs
    /\ r_start' = rng
    /\ r_seeded' = 0
    /\ r_draws' = <<>>
    /\ r_pc' = "called"
    /\ UNCHANGED <<rng, r_runs>>
    /\ UNCHANGED rngFrame

\* init_policy_dummies lines 93-103: seed 0, then the onset dates
RunSeedAndDates ==
    /\ r_pc = "called"
    /\ LET seeded == SeedState(rng, 0)
           d == DrawMany(seeded, 2 * r_cfg.n_samples * r_cfg.n_effects)
       IN  /\ r_draws' = r_draws \o d[1]
           /\ rng' = d[2]
    /\ r_seeded' = r_seeded + 1
    /\ r_pc' = "dates"
    /\ UNCHANGED <<r_cfg, r_start, r_runs>>
    /\ UNCHANGED rngFrame

\* init_policy_dummies lines 115-118
RunRandomEnd ==
    /\ r_pc = "dates"
    /\ LET d == DrawMany(rng, IF r_cfg.random_end THEN r_cfg.n_samples ELSE 0)
       IN  /\ r_draws' = r_draws \o d[1]
           /\ rng' = d[2]
    /\ r_pc' = "ends"
    /\ UNCHANGED <<r_cfg, r_start, r_seeded, r_runs>>
    /\ UNCHANGED rngFrame

\* get_stochastic_discrete_params lines 226-231: the noise on beta
RunNoise ==
    /\ r_pc = "ends"
    /\ LET d == DrawMany(rng, NumCells)
       IN  /\ r_draws' = r_draws \o d[1]
           /\ rng' = d[2]
    /\ r_pc' = "noise"
    /\ UNCHANGED <<r_cfg, r_start, r_seeded, r_runs>>
    /\ UNCHANGED rngFrame

\* lines 516-648: nothing else is drawn; the result is a function of the
\* configuration and of the draws
RunReturn ==
    /\ r_pc = "noise"
    /\ r_runs' = Append(r_runs, [cfg |-> r_cfg, start |-> r_start,
                                 seeded |-> r_seeded, draws |-> r_draws])
    /\ r_pc' = "idle"
    /\ UNCHANGED <<rng, r_cfg, r_start, r_seeded, r_draws>>
    /\ UNCHANGED rngFrame

RngNext ==
    \/ ExternalDraw \/ ExternalSeed \/ RunCall \/ RunSeedAndDates
    \/ RunRandomEnd \/ RunNoise \/ RunReturn

\* C7: two invocations of simulate_and_regress with the same configuration
\* draw the same policy timing and noise, hence return the same result,
\* whatever the generator's state was when each was called; every
\* invocation seeds the generator exactly once, before its first draw.
C7_Reproducible ==
    /\ \A i, j \in 1..Len(r_runs) :
          r_runs[i].cfg = r_runs[j].cfg => r_runs[i].draws = r_runs[j].draws
    /\ \A i \in 1..Len(r_runs) :
          /\ r_runs[i].seeded = 1
          /\ r_runs[i].draws[1] = Advance(0)
    /\ r_draws # <<>> => r_seeded = 1

\* two invocations with one configuration that found the generator in
\* different states
C7_Witness ==
    \E i, j \in 1..Len(r_runs) :
        /\ i # j
        /\ r_runs[i].cfg = r_runs[j].cfg
        /\ r_runs[i].cfg.random_end
        /\ r_runs[i].start # r_runs[j].start

(***************************************************************************)
(* The regression loop of simulate_and_regress (epi.py 564-616), on the    *)
(* daily data: one gamma, one sigma and one outcome variable, so a cell of *)
(* the coefficient tensor is a sample.  Days are 0..RegDays-1.             *)
(*                                                                         *)
(* Every sample has its sorted, distinct onset days (init_policy_dummies), *)
(* its random_end draw (in quarters) and the days on which its cumulative  *)
(* cases are at or above min_cases / pop (from some day on, or never).     *)
(* The outcome (logdiff) is finite on every day but the last, which        *)
(* .pad(t=(0, 1)) fills with NaN (line 544).                               *)
(***************************************************************************)
\* bounds: daily steps and samples
RegDays == 4

RegSamples == 2

Days == 0..(RegDays - 1)

\* sorted tuples of k distinct days
OnsetTuples(k) ==
    {o \in [1..k -> Days] : \A a, b \in 1..k : a < b => o[a] < o[b]}

\* IR >= min_cases / pop from day v on (v = RegDays: never)
ValidFrom(v) == [d \in Days |-> d >= v]

RegConfigs ==
    [n_pol : {1, 2, 3}, random_end : BOOLEAN, lag : {<<>>, <<1>>},
     reg_lag_days : {<<0>>}]

\* policy_timeseries on day d: the tensor of init_policy_dummies (onset
\* inside the grid) at fine step d * steps_per_day (line 67)
DailyIndicator(onset, lag, d) ==
    IF d < onset THEN 0
    ELSE IF d - onset < Len(lag) THEN lag[d - onset + 1]
    ELSE RampScale

\* argmax(dim="t") of a boolean series, given as the set of days on which
\* it holds: the first such day, 0 if there is none
FirstDay(on) == IF on = {} THEN 0 ELSE Min(on)

\* line 565
RHS_old(s, pl, d) == DailyIndicator(x_onset[s][pl], x_cfg.lag, d) > 0

AnyPolicyOn(s, d) == \E pl \in 1..x_cfg.n_pol : RHS_old(s, pl, d)

RECURSIVE SumTo(_, _)
SumTo(f, k) == IF k = 0 THEN 0 ELSE f[k] + SumTo(f, k - 1)

PolicySum(s, d) ==
    SumTo([pl \in 1..x_cfg.n_pol |->
              DailyIndicator(x_onset[s][pl], x_cfg.lag, d)], x_cfg.n_pol)

\* lines 580-582
NoPolOnRegday0(s) ==
    FirstDay({d \in Days : AnyPolicyOn(s, d)})
        > FirstDay({d \in Days : x_valid_reg[s][d]})

\* np.round of num / den >= 0: to the nearest, halves to the even integer
RoundHalfEven(num, den) ==
    LET q == num \div den
        r == num % den
    IN  IF 2 * r < den THEN q
        ELSE IF 2 * r > den THEN q + 1
        ELSE IF q % 2 = 0 THEN q ELSE q + 1

\* line 587: the first day the indicators sum to exactly 3
LastPol(s) == FirstDay({d \in Days : PolicySum(s, d) = 3 * RampScale})

\* lines 586-596
LastRegDay(s) ==
    IF x_cfg.random_end
    THEN RoundHalfEven((RegDays - (LastPol(s) + 1)) * x_random_end[s], 4)
         + LastPol(s) + 1
    ELSE RegDays

\* lines 608-610: the days of the sample that enter the fit
ThisValid(s) ==
    {d \in Days : /\ x_valid_reg[s][d]
                  /\ x_cfg.random_end => d <= x_last_reg_day[s]}

\* line 615, missing="drop": the padded last day has no outcome
RowsFitted(s) == ThisValid(s) \ {RegDays - 1}

\* the columns of RHS_ds (lines 565-571): the intercept and, per lag and
\* policy, the indicator shifted by the lag; <<lag, policy>>, lag -1 for
\* the intercept
Columns ==
    {<<-1, 0>>} \cup
    {<<x_cfg.reg_lag_days[i], pl>> :
        i \in 1..Len(x_cfg.reg_lag_days), pl \in 1..x_cfg.n_pol}

ColumnOn(s, c, d) ==
    IF c[1] = -1 THEN TRUE
    ELSE d - c[1] >= 0 /\ RHS_old(s, c[2], d - c[1])

\* Every column is a step function of the day (the ramps used are positive),
\* so the columns restricted to a set of rows are a chain of nested 0/1
\* vectors: the rank of the design matrix is the number of distinct
\* non-zero ones.
DesignRank(s, rows) ==
    Cardinality({ {d \in rows : ColumnOn(s, c, d)} : c \in Columns } \ {{}})

SingularDesign(s, rows) == DesignRank(s, rows) < Cardinality(Columns)

RegInit ==
    /\ x_pc = "start"
    /\ x_cfg \in RegConfigs
    /\ x_onset \in [1..RegSamples -> OnsetTuples(x_cfg.n_pol)]
    /\ x_random_end \in [1..RegSamples ->
                            IF x_cfg.random_end THEN UniformDraws ELSE {4}]
    /\ x_valid_reg \in [1..RegSamples -> {ValidFrom(v) : v \in 0..RegDays}]
    /\ x_regday0 = <<>>
    /\ x_last_reg_day = <<>>
    /\ x_samp = 1
    /\ x_estimates = <<>>

RegIdle ==
    /\ x_pc = "idle"
    /\ x_cfg = [n_pol |-> 0]
    /\ x_onset = <<>>
    /\ x_random_end = <<>>
    /\ x_valid_reg = <<>>
    /\ x_regday0 = <<>>
    /\ x_last_reg_day = <<>>
    /\ x_samp = 0
    /\ x_estimates = <<>>

\* lines 552-597: the tensor filled with NaN, the gate and the end days
RegPrepare ==
    /\ x_pc = "start"
    /\ x_estimates' = [s \in 1..RegSamples |-> "nan"]
    /\ x_regday0' = [s \in 1..RegSamples |-> NoPolOnRegday0(s)]
    /\ x_last_reg_day' = [s \in 1..RegSamples |-> LastRegDay(s)]
    /\ x_pc' = "loop"
    /\ UNCHANGED <<x_cfg, x_onset, x_random_end, x_valid_reg, x_samp>>
    /\ UNCHANGED regFrame

\* line 607 is False: the cell is passed over
RegSkip ==
    /\ x_pc = "loop" /\ x_samp <= RegSamples
    /\ ~x_regday0[x_samp]
    /\ x_samp' = x_samp + 1
    /\ UNCHANGED <<x_pc, x_cfg, x_onset, x_random_end, x_valid_reg,
                   x_regday0, x_last_reg_day, x_estimates>>
    /\ UNCHANGED regFrame

\* lines 607-616: OLS (a pseudo-inverse fit, so it also returns
\* coefficients for a rank-deficient design) on at least one row
RegFit ==
    /\ x_pc = "loop" /\ x_samp <= RegSamples
    /\ x_regday0[x_samp]
    /\ RowsFitted(x_samp) # {}
    /\ x_estimates' = [x_estimates EXCEPT ![x_samp] = "params"]
    /\ x_samp' = x_samp + 1
    /\ UNCHANGED <<x_pc, x_cfg, x_onset, x_random_end, x_valid_reg,
                   x_regday0, x_last_reg_day>>
    /\ UNCHANGED regFrame

\* lines 607-615 with no row to fit: add_constant (no valid day) or OLS
\* (only the padded day) raises on the empty array, and nothing in
\* simulate_and_regress catches it
RegRaise ==
    /\ x_pc = "loop" /\ x_samp <= RegSamples
    /\ x_regday0[x_samp]
    /\ RowsFitted(x_samp) = {}
    /\ x_pc' = "raised"
    /\ UNCHANGED <<x_cfg, x_onset, x_random_end, x_valid_reg, x_regday0,
                   x_last_reg_day, x_samp, x_estimates>>
    /\ UNCHANGED regFrame

\* lines 618-648
RegReturn ==
    /\ x_pc = "loop" /\ x_samp > RegSamples
    /\ x_pc' = "done"
    /\ UNCHANGED <<x_cfg, x_onset, x_random_end, x_valid_reg, x_regday0,
                   x_last_reg_day, x_samp, x_estimates>>
    /\ UNCHANGED regFrame

RegNext == RegPrepare \/ RegSkip \/ RegFit \/ RegRaise \/ RegReturn

RegPrepared == x_pc \in {"loop", "raised", "done"}

FirstPolicyDay(s) == FirstDay({d \in Days : AnyPolicyOn(s, d)})

\* a day with cases at or above the threshold before any policy is active
HasValidPrePolicyDay(s) ==
    \E d \in Days : /\ x_valid_reg[s][d]
                    /\ \A e \in 0..d : ~AnyPolicyOn(s, e)

\* the fit of the cell cannot be run
Unregressable(s) ==
    \/ ThisValid(s) = {}
    \/ ~HasValidPrePolicyDay(s)
    \/ SingularDesign(s, RowsFitted(s))

\* the loop has attempted a fit for the cell
FitAttempted(s) ==
    \/ x_estimates[s] = "params"
    \/ x_pc = "raised" /\ s = x_samp

\* C3: a cell whose fit cannot be run (zero valid observation days, no
\* valid pre-policy baseline, singular design matrix) is left missing, and
\* it does not abort the sweep: every other cell is processed and the call
\* returns.
C3_UnregressableLeftMissing ==
    /\ x_pc # "raised"
    /\ RegPrepared =>
          \A s \in 1..RegSamples : Unregressable(s) => x_estimates[s] = "nan"
    /\ x_pc = "done" => x_samp = RegSamples + 1

\* a sweep that returned with a cell left missing for want of a baseline
\* and another cell fitted
C3_Witness ==
    /\ x_pc = "done"
    /\ \E s, u \in 1..RegSamples :
          /\ x_estimates[s] = "nan" /\ ~HasValidPrePolicyDay(s)
          /\ x_estimates[u] = "params"

\* C6: a fit is attempted only if the first day any policy is active is
\* after the first day the cases reach the threshold, so that a valid
\* pre-policy day exists (also when the threshold is never reached);
\* otherwise the cell stays missing; a fit writes its own cell only.
C6_FitOnlyWithBaseline ==
    RegPrepared =>
        /\ \A s \in 1..RegSamples :
              /\ FitAttempted(s) =>
                    /\ NoPolOnRegday0(s)
                    /\ HasValidPrePolicyDay(s)
              /\ ~NoPolOnRegday0(s) => x_estimates[s] = "nan"
        /\ \A s \in (x_samp + 1)..RegSamples : x_estimates[s] = "nan"
        /\ x_pc # "raised" =>
              \A s \in x_samp..RegSamples : x_estimates[s] = "nan"

\* a fit attempted on a cell that has a valid pre-policy day
C6_Witness ==
    \E s \in 1..RegSamples :
        /\ x_pc = "done"
        /\ x_estimates[s] = "params"
        /\ HasValidPrePolicyDay(s)
        /\ FirstPolicyDay(s) > 0

\* the end day the claim gives sample s
EndDayAsClaimed(s) ==
    LET last == x_onset[s][x_cfg.n_pol]
    IN  last + RoundHalfEven(x_random_end[s] * (RegDays - last - 1), 4) + 1

\* C9: with random_end set, for any number of policies and any lag ramp, a
\* day enters a sample's regression only if it does not exceed the
\* sample's end day, and that end day is last-policy-onset-day +
\* round(random_end * (total_days - last-policy-onset-day - 1)) + 1.
C9_RandomEndDay ==
    RegPrepared /\ x_cfg.random_end =>
        \A s \in 1..RegSamples :
            /\ x_last_reg_day[s] = EndDayAsClaimed(s)
            /\ \A d \in ThisValid(s) : d <= EndDayAsClaimed(s)

\* three policies without lag: the end day is as claimed
C9_Witness ==
    /\ x_pc = "done"
    /\ x_cfg.random_end
    /\ x_cfg.n_pol = 3
    /\ x_cfg.lag = <<>>
    /\ \E s \in 1..RegSamples :
          /\ x_random_end[s] = 2
          /\ x_last_reg_day[s] = EndDayAsClaimed(s)
          /\ x_last_reg_day[s] < RegDays

(***************************************************************************)
(* get_true_pol_effects: the baseline (no-policy) window.  The function is *)
(* called on the fine grid, t = linspace(0, 1, ttotal) * n_days with       *)
(* ttotal = n_days * tsteps_per_day + 1, so fine step i carries the label  *)
(* i / tsteps_per_day up to floating-point rounding.                       *)
(***************************************************************************)
MaxEffDays == 8

MaxEffSpd == 4

MaxFirstPol == 9

\* the 20 of .isel(t=slice(None, -20))
BaselineMargin == 20

\* n_days, tsteps_per_day and interval.sel(time="start") of the dataset
EffConfigs ==
    [n_days : 1..MaxEffDays, spd : 1..MaxEffSpd, first_pol : 0..MaxFirstPol]

\* the fine steps of the dataset, 0-based
FineSteps(cfg) == 0..(NSteps(cfg) - 1)

\* the fine step whose exact time is first_pol (on the grid when
\* first_pol <= n_days)
BoundaryIdx(cfg) == cfg.first_pol * cfg.spd

\* how the float label t[BoundaryIdx] compares with first_pol: below (-1),
\* equal (0) or above (1).  The first label is 0.0 and the last one is
\* 1.0 * n_days, both exact; a label in between is (i * step) * n_days and
\* may round either way.  The labels of two neighbouring steps differ by
\* 1 / tsteps_per_day, so rounding matters for the boundary step only.
LabelRoundings(cfg) ==
    IF 0 < cfg.first_pol /\ cfg.first_pol < cfg.n_days
    THEN {-1, 0, 1}
    ELSE {0}

\* .sel(t=slice(None, first_pol)): label-based slicing keeps every step
\* whose label is <= the stop label, the stop label itself included
SelUpTo(cfg, rnd) ==
    SortedSeq({i \in FineSteps(cfg) :
                  \/ i < BoundaryIdx(cfg)
                  \/ i = BoundaryIdx(cfg) /\ rnd <= 0})

\* .isel(t=slice(None, -20)): positional, all but the last 20; nothing is
\* left of 20 steps or fewer
IselDropTail(steps) ==
    SubSeq(steps, 1, Max({0, Len(steps) - BaselineMargin}))

EffInit ==
    /\ e_pc = "start"
    /\ e_cfg \in EffConfigs
    /\ e_round \in LabelRoundings(e_cfg)
    /\ e_sel = <<>>
    /\ e_no_pol = <<>>
    /\ e_lambda_steps = {}
    /\ e_weight = 0

EffIdle ==
    /\ e_pc = "idle"
    /\ e_cfg = [n_days |-> 1, spd |-> 1, first_pol |-> 0]
    /\ e_round = 0
    /\ e_sel = <<>>
    /\ e_no_pol = <<>>
    /\ e_lambda_steps = {}
    /\ e_weight = 0

\* lines 361, 365
EffSelect ==
    /\ e_pc = "start"
    /\ e_sel' = SelUpTo(e_cfg, e_round)
    /\ e_pc' = "selected"
    /\ UNCHANGED <<e_cfg, e_round, e_no_pol, e_lambda_steps, e_weight>>
    /\ UNCHANGED effFrame

\* lines 366-367
EffDropTail ==
    /\ e_pc = "selected"
    /\ e_no_pol' = IselDropTail(e_sel)
    /\ e_pc' = "dropped"
    /\ UNCHANGED <<e_cfg, e_round, e_sel, e_lambda_steps, e_weight>>
    /\ UNCHANGED effFrame

\* lines 370-371: lambdas[0] is the mean over the steps of no_pol (NaN when
\* there is none), weights[0] their number
EffBaseline ==
    /\ e_pc = "dropped"
    /\ e_lambda_steps' = {e_no_pol[k] : k \in 1..Len(e_no_pol)}
    /\ e_weight' = Len(e_no_pol)
    /\ e_pc' = "done"
    /\ UNCHANGED <<e_cfg, e_round, e_sel, e_no_pol>>
    /\ UNCHANGED effFrame

EffNext == EffSelect \/ EffDropTail \/ EffBaseline

\* the steps of a set that have at least k later steps in it
MinusFinal(S, k) == {i \in S : Cardinality({j \in S : j > i}) >= k}

\* the fine steps whose time is strictly before the interval start
StrictlyBeforeStart == {i \in FineSteps(e_cfg) : i < BoundaryIdx(e_cfg)}

\* C11: the steps averaged for the baseline are exactly the fine steps whose
\* time is strictly before the onset-interval start, minus the final 20 of
\* those, and none of them is at or after the interval start.
C11_BaselineWindow ==
    e_pc = "done" =>
        /\ e_lambda_steps = MinusFinal(StrictlyBeforeStart, BaselineMargin)
        /\ \A i \in e_lambda_steps : i < BoundaryIdx(e_cfg)

\* the start lies inside the grid with an exact label and more than 20
\* steps before it: label slicing keeps the step at the start, the last 20
\* kept steps go, and the step 20 before the start is averaged
C11_Witness ==
    /\ e_pc = "done"
    /\ e_round = 0
    /\ 0 < e_cfg.first_pol
    /\ e_cfg.first_pol < e_cfg.n_days
    /\ BoundaryIdx(e_cfg) > BaselineMargin
    /\ BoundaryIdx(e_cfg) - BaselineMargin \in e_lambda_steps
    /\ BoundaryIdx(e_cfg) \notin e_lambda_steps

(***************************************************************************)
(* Specifications: one per component, the others idle.                     *)
(***************************************************************************)
InitDaily ==
    DailyInit /\ SimIdle /\ PolIdle /\ ParIdle /\ RngIdle /\ RegIdle
    /\ EffIdle

SpecDaily == InitDaily /\ [][DailyNext]_vars

InitSim ==
    SimInit /\ DailyIdle /\ PolIdle /\ ParIdle /\ RngIdle /\ RegIdle
    /\ EffIdle

SpecSim == InitSim /\ [][SimNext]_vars

InitPolicy ==
    PolInit /\ DailyIdle /\ SimIdle /\ ParIdle /\ RngIdle /\ RegIdle
    /\ EffIdle

SpecPolicy == InitPolicy /\ [][PolNext]_vars

InitParams ==
    ParInit /\ DailyIdle /\ SimIdle /\ PolIdle /\ RngIdle /\ RegIdle
    /\ EffIdle

SpecParams == InitParams /\ [][ParNext]_vars

InitSeed ==
    RngInit /\ DailyIdle /\ SimIdle /\ PolIdle /\ ParIdle /\ RegIdle
    /\ EffIdle

SpecSeed == InitSeed /\ [][RngNext]_vars

InitRegress ==
    RegInit /\ DailyIdle /\ SimIdle /\ PolIdle /\ ParIdle /\ RngIdle
    /\ EffIdle

SpecRegress == InitRegress /\ [][RegNext]_vars

InitEffects ==
    EffInit /\ DailyIdle /\ SimIdle /\ PolIdle /\ ParIdle /\ RngIdle
    /\ RegIdle

SpecEffects == InitEffects /\ [][EffNext]_vars

=============================================================================
